---- MODULE Spec2Model ----
(***************************************************************************)
(* Paralympics REST API (FastAPI + SQLModel): the Games resource.          *)
(* One action per HTTP route of routes/games_router.py; each action runs   *)
(* the whole request: body validation (models/schemas.py), the service     *)
(* method (services/games_service.py) inside one storage session, and the  *)
(* release of that session.                                                *)
(***************************************************************************)
EXTENDS Integers, Sequences, FiniteSets, Bags, TLC

VARIABLES games, links, prev, resp, deleted, gone, interleaved, repeat, quiz, reqs

vars == <<games, links, prev, resp, deleted, gone, interleaved, repeat, quiz, reqs>>

\* ------------------------------------------------------------------ bounds

\* Surrogate ids the store hands out are 1..MaxId.
MaxId == 2

\* ------------------------------------------------------------------ values

\* Python None / JSON null, and a present value v.
Null == <<>>
Some(v) == <<v>>

\* Strings that the code transforms are sequences of characters.
UpperChars == <<"A","B","C","D","E","F","G","H","I","J","K","L","M",
                "N","O","P","Q","R","S","T","U","V","W","X","Y","Z">>
LowerChars == <<"a","b","c","d","e","f","g","h","i","j","k","l","m",
                "n","o","p","q","r","s","t","u","v","w","x","y","z">>

LowerChar(c) ==
    IF \E i \in 1..Len(UpperChars) : UpperChars[i] = c
    THEN LowerChars[CHOOSE i \in 1..Len(UpperChars) : UpperChars[i] = c]
    ELSE c

\* str.lower()
Lower(s) == [i \in 1..Len(s) |-> LowerChar(s[i])]

winter == <<"w","i","n","t","e","r">>
summer == <<"s","u","m","m","e","r">>

\* ------------------------------------------------------------------ schemas

RequiredFields == {"event_type", "year"}
OptionalFields == {"start_date", "end_date", "countries", "events", "sports",
                   "participants_m", "participants_f", "participants",
                   "highlights", "url"}
\* The 12 data fields of GamesBase / GamesUpdate.
Fields == RequiredFields \cup OptionalFields

\* Columns of the Games table: the data fields and the primary key.
Columns == Fields \cup {"id"}

MinYear == 1960
MaxYear == 9999

\* allowed = ["winter", "summer"]
AllowedEventTypes == {winter, summer}

\* A validator's outcome: the value it returns, or the ValueError it raises.
Ok(v) == [ok |-> TRUE, value |-> v]
Invalid == [ok |-> FALSE, value |-> Null]

\* validate_event_type returning the value as it was given.
BaseValidateEventTypeNoLower(value) ==
    IF Lower(value[1]) \notin AllowedEventTypes THEN Invalid ELSE Ok(value)

\* GamesBase.validate_event_type: value is a str.
BaseValidateEventType(value) ==
    IF Lower(value[1]) \notin AllowedEventTypes THEN Invalid
    ELSE Ok(Some(Lower(value[1])))

\* validate_year without the upper limit.
BaseValidateYearNoUpper(value) ==
    IF value[1] < MinYear THEN Invalid ELSE Ok(value)

\* GamesBase.validate_year: value is an int.
BaseValidateYear(value) ==
    IF value[1] < MinYear \/ value[1] > MaxYear THEN Invalid ELSE Ok(value)

\* GamesUpdate.validate_event_type without the check of the value.
UpdateValidateEventTypeAny(value) == Ok(value)

\* GamesUpdate.validate_event_type: None passes unchanged.
UpdateValidateEventType(value) ==
    IF value # Null
    THEN IF Lower(value[1]) \notin AllowedEventTypes THEN Invalid
         ELSE Ok(Some(Lower(value[1])))
    ELSE Ok(value)

\* GamesUpdate.validate_year without the lower limit.
UpdateValidateYearNoLower(value) ==
    IF value # Null
    THEN IF value[1] > MaxYear THEN Invalid ELSE Ok(value)
    ELSE Ok(value)

\* GamesUpdate.validate_year: None passes unchanged.
UpdateValidateYear(value) ==
    IF value # Null
    THEN IF value[1] < MinYear \/ value[1] > MaxYear THEN Invalid ELSE Ok(value)
    ELSE Ok(value)

\* A parsed schema instance: the value of each of the 12 fields and the set of
\* fields the request body set (pydantic's model_fields_set).
Instance(ok, values, fieldsSet) ==
    [ok |-> ok, values |-> values, fields_set |-> fieldsSet]

NoValues == [f \in Fields |-> Null]

\* GamesCreate(**body): event_type and year are required and not nullable,
\* every other field defaults to None; the field validators run on the
\* fields that are present.
ParseGamesCreate(body) ==
    LET present == DOMAIN body
        typed == /\ RequiredFields \subseteq present
                 /\ \A f \in RequiredFields : body[f] # Null
    IN  IF ~typed THEN Instance(FALSE, NoValues, present)
        ELSE LET et == BaseValidateEventType(body["event_type"])
                 yr == BaseValidateYear(body["year"])
             IN  IF ~et.ok \/ ~yr.ok THEN Instance(FALSE, NoValues, present)
                 ELSE Instance(TRUE,
                               [f \in Fields |->
                                   IF f = "event_type" THEN et.value
                                   ELSE IF f = "year" THEN yr.value
                                   ELSE IF f \in present THEN body[f]
                                   ELSE Null],
                               present)

\* GamesUpdate(**body): every field is Optional with default None; the field
\* validators run on the fields that are present.
ParseGamesUpdate(body) ==
    LET present == DOMAIN body
        et == IF "event_type" \in present
              THEN UpdateValidateEventType(body["event_type"]) ELSE Ok(Null)
        yr == IF "year" \in present
              THEN UpdateValidateYear(body["year"]) ELSE Ok(Null)
    IN  IF ~et.ok \/ ~yr.ok THEN Instance(FALSE, NoValues, present)
        ELSE Instance(TRUE,
                      [f \in Fields |->
                          IF f = "event_type" THEN et.value
                          ELSE IF f = "year" THEN yr.value
                          ELSE IF f \in present THEN body[f]
                          ELSE Null],
                      present)

\* data.model_dump(): every field.
ModelDump(inst) == inst.values

\* data.model_dump(exclude_unset=True): only the fields the body set.
ModelDumpExcludeUnset(inst) == [f \in inst.fields_set |-> inst.values[f]]

\* ------------------------------------------------------------------ store

\* Columns of the Games table that reject NULL: the table class takes its
\* columns from GamesBase, where event_type and year carry no Optional.
NotNullColumns == RequiredFields

\* Primary keys the store can give a new row: any key no stored row has.
FreeIds(db) == (1..MaxId) \ DOMAIN db

\* A storage session (with Session(engine) as session): the committed rows
\* and the session's own view of them, pending changes included.
SessionOpen(db) == [db |-> db, tx |-> db]

\* session.get(Games, games_id): the row, or None.
SessionGet(s, id) == IF id \in DOMAIN s.tx THEN Some(s.tx[id]) ELSE Null

\* session.add(new_games): the row is pending under the key the store gives it.
SessionAdd(s, id, values) ==
    [s EXCEPT !.tx = [i \in DOMAIN s.tx \cup {id} |->
                         IF i = id
                         THEN [c \in Columns |-> IF c = "id" THEN Some(id) ELSE values[c]]
                         ELSE s.tx[i]]]

\* session.delete(games)
SessionDelete(s, id) ==
    [s EXCEPT !.tx = [i \in DOMAIN s.tx \ {id} |-> s.tx[i]]]

\* The loop adding to participants where it should assign.
SetAttrsAccumulate(s, id, update_data) ==
    [s EXCEPT !.tx[id] = [c \in Columns |->
                             IF c \notin DOMAIN update_data THEN s.tx[id][c]
                             ELSE IF /\ c = "participants"
                                     /\ update_data[c] # Null /\ s.tx[id][c] # Null
                                  THEN Some(s.tx[id][c][1] + update_data[c][1])
                                  ELSE update_data[c]]]

\* setattr applied to every loaded row instead of the one named.
SetAttrsAll(s, id, update_data) ==
    [s EXCEPT !.tx = [i \in DOMAIN s.tx |->
        [c \in Columns |-> IF c \in DOMAIN update_data THEN update_data[c]
                           ELSE s.tx[i][c]]]]

\* setattr(games, key, value) for key, value in update_data.items()
SetAttrs(s, id, update_data) ==
    [s EXCEPT !.tx[id] = [c \in Columns |->
                             IF c \in DOMAIN update_data THEN update_data[c]
                             ELSE s.tx[id][c]]]

\* The flush of a row with NULL in a NOT NULL column raises IntegrityError.
ViolatesNotNull(tx) ==
    \E i \in DOMAIN tx : \E c \in NotNullColumns : tx[i][c] = Null

\* A commit that has written the rows when it raises.
SessionCommitPartial(s, fault) ==
    IF fault = "commit" \/ ViolatesNotNull(s.tx)
    THEN [raised |-> TRUE, session |-> [s EXCEPT !.db = s.tx]]
    ELSE [raised |-> FALSE, session |-> [s EXCEPT !.db = s.tx]]

\* session.commit(): raises SQLAlchemyError when the store fails during the
\* write or a constraint rejects it, and then nothing is written.
SessionCommit(s, fault) ==
    IF fault = "commit" \/ ViolatesNotNull(s.tx)
    THEN [raised |-> TRUE, session |-> s]
    ELSE [raised |-> FALSE, session |-> [s EXCEPT !.db = s.tx]]

\* session.refresh(obj): a read of the committed row; raises when the store
\* fails during it.
SessionRefresh(s, fault) == [raised |-> fault = "refresh", session |-> s]

\* session.rollback()
SessionRollback(s) == [s EXCEPT !.tx = s.db]

\* Leaving the with block of get_db closes the session: what was not
\* committed is dropped, the committed rows stay.
SessionClose(s) == s.db

\* ------------------------------------------------------------------ service

\* What a service method hands its caller: a returned value (None or a
\* value), or a raised exception with the status the framework gives it
\* (an HTTPException's status_code; 500 for any other exception).
Return(value, s) == [raised |-> FALSE, status |-> 0, value |-> value, session |-> s]
Raise(status, s) == [raised |-> TRUE, status |-> status, value |-> Null, session |-> s]

\* Positional parameters each method of GamesService declares, and whether it
\* is a @staticmethod.
Methods ==
    [get_games_by_id |-> [static |-> TRUE,  params |-> 2],
     get_games       |-> [static |-> FALSE, params |-> 1],
     get_chart_data  |-> [static |-> TRUE,  params |-> 1],
     create_games    |-> [static |-> TRUE,  params |-> 2],
     delete_games    |-> [static |-> FALSE, params |-> 3],
     update_games    |-> [static |-> FALSE, params |-> 4]]

\* crud.<name>(args) on the instance crud = GamesService(): Python passes
\* the instance first unless the method is static, and raises TypeError when
\* the count of arguments is not the count of parameters.
CallBinds(name, nargs) ==
    (IF Methods[name].static THEN nargs ELSE nargs + 1) = Methods[name].params

\* get_games_by_id returning None for an id that is not stored.
get_games_by_id_returns_none(s, games_id) ==
    Return(SessionGet(s, games_id), s)

\* GamesService.get_games_by_id
get_games_by_id(s, games_id) ==
    LET result == SessionGet(s, games_id)
    IN  IF result = Null THEN Raise(404, s) ELSE Return(result, s)

\* select(Games): every row of the session's view, in key order.
RECURSIVE RowsFrom(_, _)
RowsFrom(tx, i) ==
    IF i > MaxId THEN <<>>
    ELSE (IF i \in DOMAIN tx THEN <<tx[i]>> ELSE <<>>) \o RowsFrom(tx, i + 1)

\* GamesService.get_games (the body of the function)
get_games(s) ==
    LET result == RowsFrom(s.tx, 1)
    IN  IF result = <<>> THEN Return(Some(<<>>), s) ELSE Return(Some(result), s)

\* GamesService.create_games
create_games(s, games_create, id, fault) ==
    LET added == SessionAdd(s, id, games_create.values)
        committed == SessionCommit(added, fault)
        refreshed == SessionRefresh(committed.session, fault)
    IN  IF committed.raised
        THEN Raise(500, SessionRollback(committed.session))
        ELSE IF refreshed.raised
        THEN Raise(500, SessionRollback(refreshed.session))
        ELSE Return(Some(refreshed.session.tx[id]), refreshed.session)

\* delete_games without the commit.
delete_games_keeps_row(s, games_id, fault) ==
    LET games_ == get_games_by_id(s, games_id)
    IN  IF games_.raised THEN games_
        ELSE IF games_.value = Null THEN Return(Null, s)
        ELSE Return(Some(<<>>), SessionDelete(s, games_id))

\* GamesService.delete_games
delete_games(s, games_id, fault) ==
    LET games_ == get_games_by_id(s, games_id)
    IN  IF games_.raised THEN games_
        ELSE IF games_.value = Null THEN Return(Null, s)
        ELSE LET committed == SessionCommit(SessionDelete(s, games_id), fault)
             IN  IF committed.raised THEN Raise(500, committed.session)
                 ELSE Return(Some(<<>>), committed.session)

\* GamesService.update_games
update_games(s, games_id, update_data, fault) ==
    LET games_ == get_games_by_id(s, games_id)
    IN  IF games_.raised THEN games_
        ELSE IF games_.value = Null THEN Return(Null, s)
        ELSE LET committed == SessionCommit(SetAttrs(s, games_id, update_data), fault)
                 refreshed == SessionRefresh(committed.session, fault)
             IN  IF committed.raised THEN Raise(500, committed.session)
                 ELSE IF refreshed.raised THEN Raise(500, refreshed.session)
                 ELSE Return(Some(refreshed.session.tx[games_id]), refreshed.session)

\* ------------------------------------------------------------------ chart data

\* Host rows (place_name, latitude, longitude, country_id): hosts 1 and 2
\* name countries 1 and 2, host 3 has no country_id.
Hosts ==
    [h \in 1..3 |->
        [place_name |-> Some(h), latitude |-> Some(10 * h), longitude |-> Null,
         country_id |-> IF h = 3 THEN Null ELSE Some(h)]]

\* Ids of the Country rows: country 2, which host 2 names, is not stored.
Countries == {1}

\* Country.country_name of country c
CountryName(c) == Some(c)

\* The query with outer joins: a Games row without a match gives one row.
ChartJoinOuter(tx, lk, cs) ==
    {t \in (DOMAIN tx) \X (DOMAIN Hosts \cup {0}) \X (cs \cup {0}) :
        \/ /\ <<t[1], t[2]>> \in lk
           /\ Hosts[t[2]].country_id = Some(t[3])
        \/ /\ t[2] = 0 /\ t[3] = 0
           /\ ~\E h \in DOMAIN Hosts : \E c \in cs :
                    <<t[1], h>> \in lk /\ Hosts[h].country_id = Some(c)}

\* select(...).select_from(Games).join(Games.hosts)
\*            .join(Country, Host.country_id == Country.id):
\* the (Games, Host, Country) matches of the two inner joins.
ChartJoin(tx, lk, cs) ==
    {t \in (DOMAIN tx) \X (DOMAIN Hosts) \X cs :
        /\ <<t[1], t[2]>> \in lk
        /\ Hosts[t[2]].country_id = Some(t[3])}

\* dict(zip(column_names, row)) for one row of the result
ChartRow(tx, t) ==
    [country_name   |-> IF t[3] = 0 THEN Null ELSE CountryName(t[3]),
     event_type     |-> tx[t[1]]["event_type"],
     year           |-> tx[t[1]]["year"],
     start_date     |-> tx[t[1]]["start_date"],
     end_date       |-> tx[t[1]]["end_date"],
     place_name     |-> IF t[2] = 0 THEN Null ELSE Hosts[t[2]].place_name,
     events         |-> tx[t[1]]["events"],
     sports         |-> tx[t[1]]["sports"],
     countries      |-> tx[t[1]]["countries"],
     participants_m |-> tx[t[1]]["participants_m"],
     participants_f |-> tx[t[1]]["participants_f"],
     participants   |-> tx[t[1]]["participants"],
     latitude       |-> IF t[2] = 0 THEN Null ELSE Hosts[t[2]].latitude,
     longitude      |-> IF t[2] = 0 THEN Null ELSE Hosts[t[2]].longitude]

\* The rows of a result set, in some order.
RECURSIVE SetToSeq(_)
SetToSeq(S) ==
    IF S = {} THEN <<>>
    ELSE LET x == CHOOSE x \in S : TRUE IN <<x>> \o SetToSeq(S \ {x})

\* GamesService.get_chart_data
get_chart_data(s, lk, cs) ==
    LET result == SetToSeq(ChartJoin(s.tx, lk, cs))
        data == [i \in 1..Len(result) |-> ChartRow(s.tx, result[i])]
    IN  IF data = <<>> THEN Return(Some(<<>>), s) ELSE Return(Some(data), s)

\* The rows of Games.hosts left after a Games row is deleted: the deleted
\* row's associations go with it.
LinksAfter(lk, db) == {l \in lk : l[1] \in DOMAIN db}

\* ------------------------------------------------------------------ routes

\* What a route answers: the HTTP status, the body (a list of objects; one
\* object is a list of one) and the session it used.
Answer(status, result, s) == [status |-> status, result |-> result, session |-> s]

\* An exception that leaves the route: an HTTPException answers with its
\* status_code, any other exception with 500.
Failed(r) == Answer(r.status, <<>>, r.session)

\* GET /games
route_get_games(s) ==
    IF ~CallBinds("get_games", 1) THEN Answer(500, <<>>, s)
    ELSE LET r == get_games(s) IN Answer(200, r.value[1], r.session)

\* GET /all
route_get_chart_data(s, lk, cs) ==
    IF ~CallBinds("get_chart_data", 1) THEN Answer(500, <<>>, s)
    ELSE LET r == get_chart_data(s, lk, cs) IN Answer(200, r.value[1], r.session)

\* GET /games/{games_id}
route_get_games_by_id(s, games_id) ==
    IF ~CallBinds("get_games_by_id", 2) THEN Answer(500, <<>>, s)
    ELSE LET r == get_games_by_id(s, games_id)
         IN  IF r.raised THEN Failed(r) ELSE Answer(200, r.value, r.session)

\* A request whose body the route's schema rejects is answered 422 before
\* the route function runs.
Unprocessable(s) == Answer(422, <<>>, s)

\* POST /games, games_data: GamesCreate
route_create_games(s, games_data, id, fault) ==
    IF ~games_data.ok THEN Unprocessable(s)
    ELSE IF ~CallBinds("create_games", 2) THEN Answer(500, <<>>, s)
    ELSE LET r == create_games(s, games_data, id, fault)
         IN  IF r.raised THEN Failed(r) ELSE Answer(201, r.value, r.session)

\* DELETE /games/{games_id}
route_delete_games(s, games_id, fault) ==
    IF ~CallBinds("delete_games", 2) THEN Answer(500, <<>>, s)
    ELSE LET r == delete_games(s, games_id, fault)
         IN  IF r.raised THEN Failed(r)
             ELSE IF r.value = Null THEN Answer(404, <<>>, r.session)
             ELSE Answer(204, <<>>, r.session)

\* The body of a PUT or PATCH answer: the object update_games returned, or
\* null when it returned None.
UpdateAnswer(r) ==
    IF r.raised THEN Failed(r) ELSE Answer(200, r.value, r.session)

\* The PUT route passing only the fields the body set.
route_update_games_put_unset(s, games_id, data, fault) ==
    IF ~data.ok THEN Unprocessable(s)
    ELSE IF ~CallBinds("update_games", 3) THEN Answer(500, <<>>, s)
    ELSE UpdateAnswer(update_games(s, games_id, ModelDumpExcludeUnset(data), fault))

\* PUT /games/{games_id}, data: GamesCreate
route_update_games_put(s, games_id, data, fault) ==
    IF ~data.ok THEN Unprocessable(s)
    ELSE IF ~CallBinds("update_games", 3) THEN Answer(500, <<>>, s)
    ELSE UpdateAnswer(update_games(s, games_id, ModelDump(data), fault))

\* The PATCH route's update_data without exclude_unset.
PatchDumpAll(data) == ModelDump(data)

\* The PATCH route's update_data.
PatchDump(data) == ModelDumpExcludeUnset(data)

\* PATCH /games/{games_id}, data: GamesUpdate
route_update_games_patch(s, games_id, data, fault) ==
    IF ~data.ok THEN Unprocessable(s)
    ELSE IF ~CallBinds("update_games", 3) THEN Answer(500, <<>>, s)
    ELSE UpdateAnswer(update_games(s, games_id, PatchDump(data), fault))

\* ------------------------------------------------------------------ requests

\* ------------------------------------------------------------------ quiz

\* Keys the Question and Response tables can hold.
MaxQuestion == 2
MaxResponse == 2

QuestionIds == 1..MaxQuestion
ResponseIds == 1..MaxResponse

\* A Response row: the key and ResponseBase's fields; question_id is
\* Optional, so a Response may belong to no Question.
ResponseRow(id, question_id, is_correct) ==
    [id |-> Some(id), question_id |-> question_id,
     response_text |-> Some("text"), is_correct |-> Some(is_correct)]

\* The Question and Response rows the tables are seeded with.
QuizSeed ==
    [questions |-> QuestionIds,
     responses |-> [r \in ResponseIds |-> ResponseRow(r, Some(1), r = 1)],
     op |-> "start", arg |-> 0, status |-> 0, result |-> <<>>]

\* select(Response).where(Response.question_id == q_id): the matching rows
\* of the session's view, in key order.
RECURSIVE ResponsesFrom(_, _, _)
ResponsesFrom(tx, q_id, i) ==
    IF i > MaxResponse THEN <<>>
    ELSE (IF i \in DOMAIN tx /\ tx[i].question_id = Some(q_id)
          THEN <<tx[i]>> ELSE <<>>) \o ResponsesFrom(tx, q_id, i + 1)

\* get_responses_by_question returning the empty list as get_questions does.
get_responses_by_question_or_empty(s, q_id) ==
    Return(Some(ResponsesFrom(s.tx, q_id, 1)), s)

\* QuizService.get_responses_by_question
get_responses_by_question(s, q_id) ==
    LET result == ResponsesFrom(s.tx, q_id, 1)
    IN  IF result = <<>> THEN Raise(404, s) ELSE Return(Some(result), s)

\* QuizService.get_response
get_response(s, r_id) ==
    LET result == SessionGet(s, r_id)
    IN  IF result = Null THEN Raise(404, s) ELSE Return(result, s)

\* QuizService.create_response: the store gives the new row the key id.
create_response(s, response_create, id) ==
    LET added == [s EXCEPT !.tx = [i \in DOMAIN s.tx \cup {id} |->
                     IF i = id
                     THEN ResponseRow(id, response_create.question_id,
                                      response_create.is_correct)
                     ELSE s.tx[i]]]
        committed == [added EXCEPT !.db = added.tx]
    IN  Return(Some(committed.tx[id]), committed)

\* QuizService.delete_response
delete_response(s, response_id) ==
    LET r == get_response(s, response_id)
    IN  IF r.raised THEN r
        ELSE IF r.value = Null THEN Return(Null, s)
        ELSE LET deleted_ == SessionDelete(s, response_id)
             IN  Return(Some(<<>>), [deleted_ EXCEPT !.db = deleted_.tx])

\* GET /questions/{q_id}/responses
get_responses_for_question(s, q_id) ==
    LET r == get_responses_by_question(s, q_id)
    IN  IF r.raised THEN Failed(r) ELSE Answer(200, r.value[1], r.session)

\* DELETE /responses/{response_id}
route_delete_response(s, response_id) ==
    LET r == delete_response(s, response_id)
    IN  IF r.raised THEN Failed(r)
        ELSE IF r.value = Null THEN Answer(404, <<>>, r.session)
        ELSE Answer(204, <<>>, r.session)

\* Request bodies (JSON objects over the Games fields).
Bodies ==
    << [event_type |-> Some(<<"S","u","m","m","e","r">>), year |-> Some(2021),
        participants |-> Some(4537)],
       [event_type |-> Some(<<"W","I","N","T","E","R">>), year |-> Some(1960)],
       [year |-> Some(1960)],
       [event_type |-> Some(<<"W","i","n","t","e","r","s">>), year |-> Some(2021),
        participants |-> Some(99)],
       [event_type |-> Some(summer), year |-> Some(1959)],
       [event_type |-> Some(winter), year |-> Some(10000)],
       [event_type |-> Null, participants |-> Some(10)],
       [year |-> Null],
       [f \in {} |-> Null] >>

BodyIds == 1..Len(Bodies)

\* Each body as the framework parses it for a GamesCreate parameter (POST,
\* PUT) and for a GamesUpdate parameter (PATCH).
AsGamesCreate == [b \in BodyIds |-> ParseGamesCreate(Bodies[b])]
AsGamesUpdate == [b \in BodyIds |-> ParseGamesUpdate(Bodies[b])]

\* Ids a request can name: every id the store can hold.
Ids == 1..MaxId

\* Where the store fails during a request, if it does.
WriteFaults == {"none", "commit", "refresh"}

\* The store can fail only in a request that gets as far as writing to it.
FaultsOf(faults, writes) == IF writes THEN faults ELSE {"none"}

\* The row init_db seeds the Games table with.
SeedValues ==
    [f \in Fields |->
        IF f = "event_type" THEN Some(summer)
        ELSE IF f = "year" THEN Some(2021)
        ELSE IF f = "participants" THEN Some(4537)
        ELSE Null]

SeedRow(i) == [c \in Columns |-> IF c = "id" THEN Some(i) ELSE SeedValues[c]]

\* The Host row seeded for Games row i: one host for each edition.
SeedHost(i) == ((i - 1) % 3) + 1

Writes == {"create", "put", "patch", "delete"}

\* Two requests in flight at once, each served by its own worker with its
\* own session.
Procs == {1, 2}

\* The requests offered: GET /games, DELETE of any id, and PATCH of any id
\* with a body that is applied, one that is rejected and one the store refuses.
PatchBodies == {3, 4, 8}
Offered ==
    {[op |-> "get_all", id |-> 0, body |-> 0]}
    \cup {[op |-> "delete", id |-> id, body |-> 0] : id \in Ids}
    \cup {[op |-> "patch", id |-> id, body |-> b] : id \in Ids, b \in PatchBodies}

\* A worker with no request.
Idle ==
    [pc |-> "idle", op |-> "none", id |-> 0, body |-> 0, status |-> 0,
     opened |-> 0, open |-> 0, raced |-> FALSE]

\* get_db up to the yield: Session(engine) is entered.
AcquireSession(r) == [r EXCEPT !.opened = @ + 1, !.open = @ + 1]

\* get_db closing the session after the yield only when the route returned.
ReleaseSessionOnReturn(r) ==
    IF r.status >= 400 THEN r ELSE [r EXCEPT !.open = @ - 1]

\* get_db after the yield: the with block is left, by return or by
\* exception, and closes the session.
ReleaseSession(r) == [r EXCEPT !.open = @ - 1]

\* The flush of a pending delete that removes nothing.
FlushDeleteNothing(db, id) == db

\* The flush of session.delete(games): DELETE FROM games WHERE id = :id.
FlushDelete(db, id) == [i \in DOMAIN db \ {id} |-> db[i]]

\* What the commit of a delete does when the row is no longer stored: the
\* DELETE matches no row, which the store lets pass or reports as an error.
StaleOutcomes == {204, 500}

\* The state after a request: the committed rows once the session is
\* released, the answer, and the history the properties read.
Respond(op, id, b, fault, a) ==
    LET db == SessionClose(a.session)
        removed == IF op = "delete" /\ a.status = 204 THEN {id} ELSE {}
        created == DOMAIN db \ DOMAIN games
        gone1 == (gone \cup removed) \ created
    IN  /\ games' = db
        /\ links' = LinksAfter(links, db)
        /\ prev' = games
        /\ resp' = [op |-> op, id |-> id, body |-> b, fault |-> fault,
                    status |-> a.status, result |-> a.result]
        /\ deleted' = deleted \cup removed
        /\ gone' = gone1
        /\ interleaved' = IF op \in Writes THEN gone \cap gone1
                          ELSE interleaved \cap gone1
        /\ repeat' = /\ op \in {"put", "patch"}
                     /\ a.status = 200
                     /\ resp.op = op /\ resp.id = id /\ resp.body = b
                     /\ resp.status = 200
        /\ UNCHANGED <<quiz, reqs>>

Init ==
    /\ games = [i \in Ids |-> SeedRow(i)]
    /\ links = {<<i, SeedHost(i)>> : i \in Ids}
    /\ prev = games
    /\ resp = [op |-> "start", id |-> 0, body |-> 0, fault |-> "none",
               status |-> 0, result |-> <<>>]
    /\ deleted = {}
    /\ gone = {}
    /\ interleaved = {}
    /\ repeat = FALSE
    /\ quiz = QuizSeed
    /\ reqs = [p \in Procs |-> Idle]

GetGames ==
    Respond("get_all", 0, 0, "none", route_get_games(SessionOpen(games)))

GetChartData ==
    Respond("chart", 0, 0, "none",
            route_get_chart_data(SessionOpen(games), links, Countries))

GetGamesById ==
    \E id \in Ids :
        Respond("get", id, 0, "none", route_get_games_by_id(SessionOpen(games), id))

\* The store gives the new row any free key; with none left the store is
\* full and the request is not made.
CreateGames ==
    \E b \in BodyIds : \E id \in FreeIds(games) :
    \E fault \in FaultsOf(WriteFaults, AsGamesCreate[b].ok) :
        Respond("create", id, b, fault,
                route_create_games(SessionOpen(games), AsGamesCreate[b], id, fault))

DeleteGames ==
    \E id \in Ids :
    \E fault \in FaultsOf({"none", "commit"}, id \in DOMAIN games) :
        Respond("delete", id, 0, fault,
                route_delete_games(SessionOpen(games), id, fault))

UpdateGamesPut ==
    \E id \in Ids : \E b \in BodyIds :
    \E fault \in FaultsOf(WriteFaults, id \in DOMAIN games /\ AsGamesCreate[b].ok) :
        Respond("put", id, b, fault,
                route_update_games_put(SessionOpen(games), id, AsGamesCreate[b], fault))

UpdateGamesPatch ==
    \E id \in Ids : \E b \in BodyIds :
    \E fault \in FaultsOf(WriteFaults, id \in DOMAIN games /\ AsGamesUpdate[b].ok) :
        Respond("patch", id, b, fault,
                route_update_games_patch(SessionOpen(games), id, AsGamesUpdate[b], fault))

Next ==
    \/ GetGames
    \/ GetChartData
    \/ GetGamesById
    \/ CreateGames
    \/ DeleteGames
    \/ UpdateGamesPut
    \/ UpdateGamesPatch

Spec == Init /\ [][Next]_vars

\* The chart query over any seeded Games.hosts data with at most one Host
\* for each edition, while rows are created, replaced and deleted.
InitChart ==
    /\ games = [i \in Ids |-> SeedRow(i)]
    /\ links \in {lk \in SUBSET (Ids \X DOMAIN Hosts) :
                    \A l1 \in lk : \A l2 \in lk : l1[1] = l2[1] => l1 = l2}
    /\ prev = games
    /\ resp = [op |-> "start", id |-> 0, body |-> 0, fault |-> "none",
               status |-> 0, result |-> <<>>]
    /\ deleted = {}
    /\ gone = {}
    /\ interleaved = {}
    /\ repeat = FALSE
    /\ quiz = QuizSeed
    /\ reqs = [p \in Procs |-> Idle]

NextChart ==
    \/ GetChartData
    \/ CreateGames
    \/ DeleteGames
    \/ UpdateGamesPut

SpecChart == InitChart /\ [][NextChart]_vars

\* ------------------------------------------------------------------ quiz requests

\* The state after a quiz request: the committed Response rows and the answer.
QuizRespond(op, arg, a) ==
    /\ quiz' = [questions |-> quiz.questions,
                responses |-> SessionClose(a.session),
                op |-> op, arg |-> arg,
                status |-> a.status, result |-> a.result]
    /\ UNCHANGED <<games, links, prev, resp, deleted, gone, interleaved, repeat, reqs>>

GetResponsesForQuestion ==
    \E q_id \in QuestionIds :
        QuizRespond("responses", q_id,
                    get_responses_for_question(SessionOpen(quiz.responses), q_id))

\* A new Response for a stored Question or for none; with no free key the
\* table is full and the request is not made.
CreateResponse ==
    \E id \in ResponseIds \ DOMAIN quiz.responses :
    \E q \in {Null} \cup {Some(i) : i \in quiz.questions} :
    \E is_correct \in BOOLEAN :
        LET r == create_response(SessionOpen(quiz.responses),
                                 [question_id |-> q, is_correct |-> is_correct], id)
        IN  QuizRespond("create_response", id, Answer(200, r.value, r.session))

DeleteResponse ==
    \E id \in ResponseIds :
        QuizRespond("delete_response", id,
                    route_delete_response(SessionOpen(quiz.responses), id))

\* Any stored Questions, and any Responses each belonging to a stored
\* Question or to none.
InitQuiz ==
    /\ games = [i \in Ids |-> SeedRow(i)]
    /\ links = {<<i, SeedHost(i)>> : i \in Ids}
    /\ prev = games
    /\ resp = [op |-> "start", id |-> 0, body |-> 0, fault |-> "none",
               status |-> 0, result |-> <<>>]
    /\ deleted = {}
    /\ gone = {}
    /\ interleaved = {}
    /\ repeat = FALSE
    /\ reqs = [p \in Procs |-> Idle]
    /\ \E qs \in SUBSET QuestionIds : \E held \in SUBSET ResponseIds :
       \E owner \in [held -> {Null} \cup {Some(i) : i \in qs}] :
          quiz = [QuizSeed EXCEPT
                    !.questions = qs,
                    !.responses = [r \in held |-> ResponseRow(r, owner[r], r = 1)]]

NextQuiz ==
    \/ GetResponsesForQuestion
    \/ CreateResponse
    \/ DeleteResponse

SpecQuiz == InitQuiz /\ [][NextQuiz]_vars

\* ------------------------------------------------------------------ request steps

AcquireOf(p) ==
    /\ reqs[p].pc = "idle"
    /\ \E o \in Offered :
          reqs' = [reqs EXCEPT ![p] =
                      AcquireSession([@ EXCEPT !.pc = "acquired", !.op = o.op,
                                               !.id = o.id, !.body = o.body])]
    /\ UNCHANGED <<games, links>>

\* A route that is served in one step: validation, service call, answer.
HandleOf(p) ==
    /\ reqs[p].pc = "acquired"
    /\ reqs[p].op \in {"get_all", "patch"}
    /\ LET s == SessionOpen(games)
           a == IF reqs[p].op = "get_all" THEN route_get_games(s)
                ELSE route_update_games_patch(s, reqs[p].id,
                                              AsGamesUpdate[reqs[p].body], "none")
       IN  /\ games' = a.session.db
           /\ reqs' = [reqs EXCEPT ![p].pc = "answered", ![p].status = a.status]
    /\ UNCHANGED links

\* delete_games up to the lookup: get_games_by_id raises 404 or gives the row.
LoadOf(p) ==
    /\ reqs[p].pc = "acquired"
    /\ reqs[p].op = "delete"
    /\ LET r == get_games_by_id(SessionOpen(games), reqs[p].id)
       IN  reqs' = IF ~CallBinds("delete_games", 2)
                   THEN [reqs EXCEPT ![p].pc = "answered", ![p].status = 500]
                   ELSE IF r.raised
                   THEN [reqs EXCEPT ![p].pc = "answered", ![p].status = r.status]
                   ELSE [reqs EXCEPT ![p].pc = "loaded"]
    /\ UNCHANGED <<games, links>>

\* session.delete(games): the row is marked in the session, the store is not
\* written.
MarkOf(p) ==
    /\ reqs[p].pc = "loaded"
    /\ reqs' = [reqs EXCEPT ![p].pc = "deleting"]
    /\ UNCHANGED <<games, links>>

\* session.commit() of the delete, and the route's answer.
CommitOf(p) ==
    /\ reqs[p].pc = "deleting"
    /\ IF reqs[p].id \in DOMAIN games
       THEN /\ games' = FlushDelete(games, reqs[p].id)
            /\ reqs' = [reqs EXCEPT ![p].pc = "answered", ![p].status = 204]
       ELSE /\ games' = games
            /\ \E status \in StaleOutcomes :
                  reqs' = [reqs EXCEPT ![p].pc = "answered", ![p].status = status,
                                       ![p].raced = TRUE]
    /\ links' = LinksAfter(links, games')

\* The answer is out and the dependency's exit code runs.
ReleaseOf(p) ==
    /\ reqs[p].pc = "answered"
    /\ reqs' = [reqs EXCEPT ![p] = ReleaseSession([@ EXCEPT !.pc = "done"])]
    /\ UNCHANGED <<games, links>>

History == <<prev, resp, deleted, gone, interleaved, repeat, quiz>>

AcquireRequest == (\E p \in Procs : AcquireOf(p)) /\ UNCHANGED History
HandleRequest == (\E p \in Procs : HandleOf(p)) /\ UNCHANGED History
LoadGames == (\E p \in Procs : LoadOf(p)) /\ UNCHANGED History
MarkDeleted == (\E p \in Procs : MarkOf(p)) /\ UNCHANGED History
CommitDelete == (\E p \in Procs : CommitOf(p)) /\ UNCHANGED History
ReleaseRequest == (\E p \in Procs : ReleaseOf(p)) /\ UNCHANGED History

NextRequests ==
    \/ AcquireRequest
    \/ HandleRequest
    \/ LoadGames
    \/ MarkDeleted
    \/ CommitDelete
    \/ ReleaseRequest

\* A request that has its session is run to its end: the worker goes on
\* through the route and the framework runs the dependency's exit code.
ProceedOf(p) ==
    (HandleOf(p) \/ LoadOf(p) \/ MarkOf(p) \/ CommitOf(p) \/ ReleaseOf(p))
    /\ UNCHANGED History

SpecRequests ==
    /\ Init
    /\ [][NextRequests]_vars
    /\ \A p \in Procs : WF_vars(ProceedOf(p))

\* ------------------------------------------------------------------ properties

\* The body of the last request, and the row it named before and after.
LastBody == Bodies[resp.body]
Existed == resp.id \in DOMAIN prev

\* s is w in some casing: the same letters, each in lower or upper case.
IsCasingOf(s, w) ==
    /\ Len(s) = Len(w)
    /\ \A i \in 1..Len(w) :
          \/ s[i] = w[i]
          \/ \E k \in 1..Len(LowerChars) : LowerChars[k] = w[i] /\ UpperChars[k] = s[i]

YearInRange(v) == v # Null /\ v[1] >= 1960 /\ v[1] <= 9999

\* C1: every stored Games row has event_type "winter" or "summer" and a year
\* in [1960, 9999], whatever requests were made, PATCH bodies that set
\* event_type or year to null included.
C1_StoredRowsValid ==
    \A id \in DOMAIN games :
        /\ games[id]["event_type"] \in {Some(winter), Some(summer)}
        /\ YearInRange(games[id]["year"])

\* A PATCH that set event_type to null on a stored row has been answered.
C1_Witness ==
    /\ resp.op = "patch" /\ Existed
    /\ "event_type" \in DOMAIN LastBody /\ LastBody["event_type"] = Null
    /\ resp.status = 500

\* C2: a creation request whose year is outside [1960, 9999] is answered
\* with a validation error and the stored rows are the same as before it.
C2_YearOutsideRejected ==
    (/\ resp.op = "create"
     /\ "year" \in DOMAIN LastBody /\ LastBody["year"] # Null
     /\ ~YearInRange(LastBody["year"]))
    => (resp.status = 422 /\ games = prev)

C2_Witness ==
    /\ resp.op = "create" /\ resp.status = 422
    /\ "year" \in DOMAIN LastBody /\ LastBody["year"] # Null
    /\ LastBody["year"][1] > 9999
    /\ IsCasingOf(LastBody["event_type"][1], winter)

\* C3: a creation request whose event_type is "winter" or "summer" in any
\* casing (the rest of the body valid, the store not failing) succeeds and
\* the stored and the returned event_type are the lowercase form; an
\* event_type that is no casing of the two is rejected.
C3_EventTypeLowercased ==
    (resp.op = "create" /\ "event_type" \in DOMAIN LastBody
     /\ LastBody["event_type"] # Null)
    => LET et == LastBody["event_type"][1]
       IN  /\ \A w \in {winter, summer} :
                 (/\ IsCasingOf(et, w)
                  /\ "year" \in DOMAIN LastBody /\ YearInRange(LastBody["year"])
                  /\ resp.fault = "none")
                 => /\ resp.status = 201
                    /\ resp.id \in DOMAIN games
                    /\ games[resp.id]["event_type"] = Some(w)
                    /\ resp.result[1]["event_type"] = Some(w)
           /\ (~IsCasingOf(et, winter) /\ ~IsCasingOf(et, summer))
                 => (resp.status = 422 /\ games = prev)

\* A creation with an event_type not in lower case has succeeded.
C3_Witness ==
    /\ resp.op = "create" /\ resp.status = 201
    /\ LastBody["event_type"] # games[resp.id]["event_type"]
    /\ games[resp.id]["event_type"] = Some(winter)

\* C4: GET /games answers 200 with all the stored rows (an empty list when
\* there are none).
C4_GetAllReturnsRows ==
    resp.op = "get_all"
    => (resp.status = 200 /\ resp.result = RowsFrom(games, 1))

\* C5 as stated: every GET, PUT, PATCH and DELETE of an id that is not
\* stored is answered 404 and changes nothing.
C5_AbsentIdNotFound ==
    (resp.op \in {"get", "put", "patch", "delete"} /\ ~Existed)
    => (resp.status = 404 /\ games = prev)

\* C5 amended: a GET or DELETE of an id that is not stored, and a PUT or
\* PATCH of it whose body passes the route's schema, is answered 404; a PUT
\* or PATCH whose body fails the schema is answered 422; none of them
\* changes the stored rows.
C5_AbsentIdNotFoundOrInvalid ==
    (resp.op \in {"get", "put", "patch", "delete"} /\ ~Existed)
    => /\ games = prev
       /\ resp.status =
            IF \/ resp.op = "put" /\ ~AsGamesCreate[resp.body].ok
               \/ resp.op = "patch" /\ ~AsGamesUpdate[resp.body].ok
            THEN 422 ELSE 404

\* A PUT with a valid body of an id that is not stored has been answered.
C5_Witness ==
    /\ resp.op = "put" /\ ~Existed /\ AsGamesCreate[resp.body].ok
    /\ resp.status = 404 /\ DOMAIN prev # {}

\* C6: a PATCH of a stored row leaves every field absent from the body, and
\* the id, as they were; when it succeeds the fields of the body have the
\* validated values.
C6_PatchChangesOnlySupplied ==
    (resp.op = "patch" /\ Existed)
    => /\ resp.id \in DOMAIN games
       /\ games[resp.id]["id"] = Some(resp.id)
       /\ \A f \in Fields \ DOMAIN LastBody :
             games[resp.id][f] = prev[resp.id][f]
       /\ resp.status = 200
             => \A f \in DOMAIN LastBody :
                   games[resp.id][f] = AsGamesUpdate[resp.body].values[f]

\* PATCH {year: 1960} has changed the year of a row of 2021 and nothing else.
C6_Witness ==
    /\ resp.op = "patch" /\ Existed /\ resp.status = 200
    /\ DOMAIN LastBody = {"year"}
    /\ prev[resp.id]["year"] = Some(2021)
    /\ games[resp.id]["year"] = Some(1960)
    /\ games[resp.id]["participants"] = Some(4537)

\* C7 as stated: once an id was deleted, every later GET of it is answered
\* 404, whatever requests came in between.
C7_NeverObservableAgain ==
    (resp.op = "get" /\ resp.id \in deleted) => resp.status = 404

\* C7 amended: once an id was deleted, no row is stored under it and every
\* GET of it is answered 404, also with update and delete requests in
\* between, until a create is given that id.
C7_GoneUntilRecreated ==
    /\ \A id \in gone : id \notin DOMAIN games
    /\ (resp.op = "get" /\ resp.id \in gone) => resp.status = 404

\* A GET of a deleted id, with another write since the delete, was answered 404.
C7_Witness ==
    resp.op = "get" /\ resp.id \in interleaved /\ resp.status = 404

\* C8: a PUT or PATCH that repeats the successful update before it (same id,
\* same body) leaves the stored rows as the first one left them.
C8_UpdateIdempotent ==
    repeat => (games = prev /\ resp.result = <<games[resp.id]>>)

C8_Witness ==
    /\ repeat /\ resp.op = "patch" /\ resp.status = 200
    /\ "year" \in DOMAIN LastBody

\* C9: a create during whose commit the store fails is answered 500 and the
\* stored rows are the same as before it.
C9_FailedCreateLeavesNothing ==
    (resp.op = "create" /\ resp.fault = "commit")
    => (resp.status = 500 /\ games = prev /\ resp.result = <<>>)

C9_Witness ==
    /\ resp.op = "create" /\ resp.fault = "commit" /\ resp.status = 500
    /\ resp.id \notin DOMAIN games

\* Games rows that have a Host whose country_id names a stored Country.
HostedGames ==
    {g \in DOMAIN games :
        \E l \in links :
            /\ l[1] = g
            /\ Hosts[l[2]].country_id # Null
            /\ Hosts[l[2]].country_id[1] \in Countries}

\* C10: GET /all answers 200 with one flattened record for each Games row
\* that has a Host with a stored Country, and none for the other rows; with
\* no such row the answer is the empty list.
C10_ChartRowPerHostedGames ==
    resp.op = "chart"
    => /\ resp.status = 200
       /\ Len(resp.result) = Cardinality(HostedGames)
       /\ \A g \in HostedGames :
             \E i \in 1..Len(resp.result) :
                /\ resp.result[i].year = games[g]["year"]
                /\ resp.result[i].event_type = games[g]["event_type"]
                /\ resp.result[i].participants = games[g]["participants"]
                /\ resp.result[i].country_name # Null
                /\ resp.result[i].place_name # Null

\* The chart has a record for one stored Games row and none for another,
\* whose Host names a Country that is not stored.
C10_Witness ==
    /\ resp.op = "chart" /\ Len(resp.result) = 1
    /\ \E l \in links : l[1] \in DOMAIN games \ HostedGames /\ l[2] = 2

\* A body field that is present, not null, and not a value creation accepts.
PresentInvalid(body) ==
    \/ /\ "event_type" \in DOMAIN body
       /\ body["event_type"] # Null
       /\ ~\E w \in {winter, summer} : IsCasingOf(body["event_type"][1], w)
    \/ /\ "year" \in DOMAIN body
       /\ body["year"] # Null
       /\ ~YearInRange(body["year"])

\* C11: a PATCH whose body has a present, invalid event_type or year is
\* answered 422, a body creation rejects too, and no stored row changes:
\* the valid fields of the same body are not applied either.
C11_InvalidPatchRejected ==
    (resp.op = "patch" /\ PresentInvalid(LastBody))
    => /\ resp.status = 422
       /\ ~AsGamesCreate[resp.body].ok
       /\ games = prev

\* A PATCH of a stored row with event_type "Winters" and participants 99 was
\* answered 422 and the row still has its 4537 participants.
C11_Witness ==
    /\ resp.op = "patch" /\ Existed /\ resp.status = 422
    /\ "participants" \in DOMAIN LastBody
    /\ LastBody["participants"] = Some(99)
    /\ PresentInvalid(LastBody)
    /\ games[resp.id]["participants"] = Some(4537)

\* C14: after a PUT answered 200 the row keeps its id and each of the 12
\* fields has the value of the body, event_type in lower case, and null
\* when the body left the field out.
C14_PutReplacesEveryField ==
    (resp.op = "put" /\ resp.status = 200)
    => /\ Existed
       /\ resp.id \in DOMAIN games
       /\ games[resp.id]["id"] = Some(resp.id)
       /\ \A f \in Fields :
             IF f \notin DOMAIN LastBody THEN games[resp.id][f] = Null
             ELSE IF f = "event_type"
                  THEN \E w \in {winter, summer} :
                          /\ IsCasingOf(LastBody[f][1], w)
                          /\ games[resp.id][f] = Some(w)
                  ELSE games[resp.id][f] = LastBody[f]

\* PUT {event_type: "WINTER", year: 1960} on a row with 4537 participants
\* has set participants to null.
C14_Witness ==
    /\ resp.op = "put" /\ resp.status = 200
    /\ "participants" \notin DOMAIN LastBody
    /\ prev[resp.id]["participants"] = Some(4537)
    /\ games[resp.id]["participants"] = Null
    /\ games[resp.id]["event_type"] = Some(winter)

\* The rows other than the one the last request named are as they were.
OthersUnchanged ==
    \A i \in (DOMAIN prev \cup DOMAIN games) \ {resp.id} :
        i \in DOMAIN prev /\ i \in DOMAIN games /\ games[i] = prev[i]

\* C16: a create answered 201 adds one row under an id no row had, an update
\* answered 200 keeps the set of ids, a delete answered 204 removes the row
\* named, and each of them leaves every other row as it was.
C16_OnlyTargetRowTouched ==
    /\ (resp.op = "create" /\ resp.status = 201)
       => /\ resp.id \notin DOMAIN prev
          /\ DOMAIN games = DOMAIN prev \cup {resp.id}
          /\ OthersUnchanged
    /\ (resp.op \in {"put", "patch"} /\ resp.status = 200)
       => /\ DOMAIN games = DOMAIN prev
          /\ OthersUnchanged
    /\ (resp.op = "delete" /\ resp.status = 204)
       => /\ resp.id \in DOMAIN prev
          /\ DOMAIN games = DOMAIN prev \ {resp.id}
          /\ OthersUnchanged

\* A PUT changed the row it named while another stored row kept its values.
C16_Witness ==
    /\ resp.op = "put" /\ resp.status = 200
    /\ games[resp.id] # prev[resp.id]
    /\ \E i \in DOMAIN games \ {resp.id} : games[i] = prev[i]

\* The stored Responses of the Question the last quiz request named.
ResponsesOf(q_id) ==
    {quiz.responses[r] : r \in {i \in DOMAIN quiz.responses :
                                   quiz.responses[i].question_id = Some(q_id)}}

\* C13: get_responses_by_question answers 404 when no stored Response has
\* the question_id, whether or not the Question is stored, and otherwise
\* returns each stored Response with that question_id once and no other.
C13_ResponsesByQuestion ==
    quiz.op = "responses"
    => IF ResponsesOf(quiz.arg) = {}
       THEN quiz.status = 404 /\ quiz.result = <<>>
       ELSE /\ quiz.status = 200
            /\ {quiz.result[i] : i \in 1..Len(quiz.result)} = ResponsesOf(quiz.arg)
            /\ Len(quiz.result) = Cardinality(ResponsesOf(quiz.arg))

\* A stored Question with no Response was asked for its Responses, answered
\* 404, while Responses of another Question are stored.
C13_Witness ==
    /\ quiz.op = "responses" /\ quiz.status = 404
    /\ quiz.arg \in quiz.questions
    /\ \E r \in DOMAIN quiz.responses :
          quiz.responses[r].question_id \notin {Null, Some(quiz.arg)}

\* C12: a request has acquired one session and no more from its start on,
\* has none open when it has ended, and a session that is open is released
\* later, whatever the answer: 200 or 204, 404, 422 or 500.
C12_SessionReleased ==
    \A p \in Procs :
        /\ [](reqs[p].pc # "idle" => reqs[p].opened = 1)
        /\ [](reqs[p].pc = "done" => reqs[p].open = 0)
        /\ (reqs[p].open > 0) ~> (reqs[p].open = 0)

\* One request has ended with 500 and the other with 422, and neither has a
\* session open.
C12_Witness ==
    /\ \A p \in Procs : reqs[p].pc = "done" /\ reqs[p].opened = 1 /\ reqs[p].open = 0
    /\ reqs[1].status = 500
    /\ reqs[2].status = 422

\* Both requests were DELETEs of the same id and have ended.
BothDeleted ==
    /\ \A p \in Procs : reqs[p].pc = "done" /\ reqs[p].op = "delete"
    /\ reqs[1].id = reqs[2].id

\* C15 as stated: of two DELETEs of the same stored id, one is answered 204
\* and the other 404, and the row is gone.
C15_ExactlyOneSucceeds ==
    BothDeleted
    => /\ {reqs[1].status, reqs[2].status} = {204, 404}
       /\ reqs[1].id \notin DOMAIN games

\* C15 amended: the row is gone and one DELETE, whose commit removed it, is
\* answered 204; the other is answered 404 when it looked the row up after
\* that commit, and 204 or 500 when it had looked it up before.
C15_OneRemovesRow ==
    BothDeleted
    => /\ reqs[1].id \notin DOMAIN games
       /\ \E p \in Procs : \E q \in Procs \ {p} :
             /\ reqs[p].status = 204 /\ ~reqs[p].raced
             /\ IF reqs[q].raced THEN reqs[q].status \in {204, 500}
                ELSE reqs[q].status = 404

\* Both DELETEs of the same id were answered 204.
C15_Witness ==
    /\ BothDeleted
    /\ reqs[1].status = 204 /\ reqs[2].status = 204
    /\ reqs[1].id \notin DOMAIN games

====
